---------------------------- MODULE Spec2Model ----------------------------
(***************************************************************************)
(* A model of smallchat-extended: the ring buffer of circular_buffer.c and *)
(* the select() loop of smallchat-server.c (client registry, read step,    *)
(* message framing, command processing and broadcast).                     *)
(*                                                                         *)
(* Bytes are one-character strings; NUL is the C string terminator.  A C   *)
(* array is a function over 0..size-1, a chunk of bytes handed over by     *)
(* read() is a sequence.                                                   *)
(***************************************************************************)
EXTENDS Integers, Sequences, FiniteSets, TLC

(***************************************************************************)
(* Bounds of the model.                                                    *)
(***************************************************************************)
\* size of the ring buffers explored by the ring buffer specification
CbMaxSize == 4
\* longest linear array handed to the bulk operations
MaxBulk == 2
\* size of the client table (MAX_CLIENTS of the source, scaled down)
MAX_CLIENTS == 4
\* size of tmpbuf, readbuf and of every inbox (READBUF_SIZE, scaled down)
READBUF_SIZE == 12
\* number of read() calls the environment answers
MaxReads == 2
\* number of connections the environment offers
MaxAccepts == 3
\* bytes an overrunning scan reads past the end of readbuf before it meets
\* a separator
MaxOverrun == 1
\* size of the msg array of the chat line
MSG_SIZE == 256

VARIABLES
    \* ---- ring buffer specification (SpecCb) ----
    ring,        \* the buffer under test
    lin,         \* the linear array / output location handed to the pops
    ret,         \* return value of the last call
    lastop,      \* name of the last call
    fifo,        \* history: bytes pushed and not yet popped or cleared
    bulk,        \* history: src, n and the content before of the bulk push
                 \* that was the last call or the one before a bulk pop,
                 \* and the n of that bulk pop
    \* ---- server (Spec) ----
    clients,     \* Chat->clients
    numclients,  \* Chat->numclients
    maxclient,   \* Chat->maxclient
    pc,          \* position of main in its loop
    readfds,     \* the fd_set select() returned
    j,           \* index of the client loop
    nread,       \* result of the last read()
    sep_occur,   \* messages still to extract for client j
    readbuf,     \* scratch line buffer of main
    readbuf_idx, \* index into readbuf
    writes,      \* the write() calls of the last step, in order
    fault,       \* undefined behaviour met so far
    nreads,      \* read() calls so far
    naccepts,    \* acceptClient() calls so far
    g_old,       \* history: inbox content of client j before its last read
    g_chunk,     \* history: the bytes that read returned
    ops,         \* history: the messages extracted since that read, each
                 \* with its bytes in readbuf (msg), the string they form
                 \* (line), the branch taken (kind) and its write() calls
    served       \* history: clients read in this iteration, in order

cbvars == <<ring, lin, ret, lastop, fifo, bulk>>
chatvars == <<clients, numclients, maxclient>>
mainvars == <<pc, readfds, j, nread, sep_occur, readbuf, readbuf_idx, writes,
              fault, nreads, naccepts>>
histvars == <<g_old, g_chunk, ops, served>>
vars == <<cbvars, chatvars, mainvars, histvars>>

NUL == "NUL"

\* a byte of memory that was never written: its value is indeterminate and
\* is drawn when the byte is first read
UNDEF == "UNDEF"

(***************************************************************************)
(* circular_buffer.c                                                       *)
(***************************************************************************)

\* struct Circbuf after circbuf_alloc(size): the bytes of buf come from
\* malloc and are never read before they are written; they start as NUL.
circbuf_alloc(size) ==
    [buf |-> [i \in 0..(size - 1) |-> NUL],
     write_idx |-> 0, read_idx |-> 0, size |-> size]

\* circbuf_push that stores the byte before it looks whether the buffer is
\* full
circbuf_push_store_first(cb, data) ==
    IF (cb.write_idx + 1) % cb.size = cb.read_idx
    THEN [cb |-> [cb EXCEPT !.buf[cb.write_idx] = data], ret |-> 0]
    ELSE [cb |-> [cb EXCEPT !.buf[cb.write_idx] = data,
                            !.write_idx = (cb.write_idx + 1) % cb.size],
          ret |-> 1]

\* int circbuf_push(cb, data): the buffer afterwards and the return value
circbuf_push(cb, data) ==
    IF (cb.write_idx + 1) % cb.size = cb.read_idx
    THEN [cb |-> cb, ret |-> 0]
    ELSE [cb |-> [cb EXCEPT !.buf[cb.write_idx] = data,
                            !.write_idx = (cb.write_idx + 1) % cb.size],
          ret |-> 1]

\* circbuf_pop that advances read_idx without wrapping it
circbuf_pop_no_wrap(cb, data) ==
    IF cb.read_idx = cb.write_idx
    THEN [cb |-> cb, data |-> data, ret |-> 0]
    ELSE [cb |-> [cb EXCEPT !.read_idx = cb.read_idx + 1],
          data |-> cb.buf[cb.read_idx % cb.size],
          ret |-> 1]

\* int circbuf_pop(cb, data): data is the value of the output location
\* before the call; the result carries its value after the call
circbuf_pop(cb, data) ==
    IF cb.read_idx = cb.write_idx
    THEN [cb |-> cb, data |-> data, ret |-> 0]
    ELSE [cb |-> [cb EXCEPT !.read_idx = (cb.read_idx + 1) % cb.size],
          data |-> cb.buf[cb.read_idx],
          ret |-> 1]

\* the loop of circbuf_push_from_linear from index i on; src[i+1] is the
\* C element src[i]
RECURSIVE push_from_linear_loop(_, _, _, _)
push_from_linear_loop(cb, src, n, i) ==
    IF i < n /\ i < cb.size - 1
    THEN LET r == circbuf_push(cb, src[i + 1])
         IN  IF r.ret = 0
             THEN [cb |-> cb, ret |-> i]
             ELSE push_from_linear_loop(r.cb, src, n, i + 1)
    ELSE [cb |-> cb, ret |-> i]

\* a bulk push that reports n whatever it stored
circbuf_push_from_linear_all(cb, src, n) ==
    [cb |-> push_from_linear_loop(cb, src, n, 0).cb, ret |-> n]

\* int circbuf_push_from_linear(cb, src, n)
circbuf_push_from_linear(cb, src, n) == push_from_linear_loop(cb, src, n, 0)

\* the loop of circbuf_pop_to_linear from index i on; dest is a C array
RECURSIVE pop_to_linear_loop(_, _, _, _)
pop_to_linear_loop(dest, cb, n, i) ==
    IF i < n
    THEN LET r == circbuf_pop(cb, dest[i])
         IN  IF r.ret = 0
             THEN [cb |-> cb, dest |-> dest, ret |-> i]
             ELSE pop_to_linear_loop([dest EXCEPT ![i] = r.data], r.cb, n, i + 1)
    ELSE [cb |-> cb, dest |-> dest, ret |-> i]

\* int circbuf_pop_to_linear(dest, cb, n)
circbuf_pop_to_linear(dest, cb, n) == pop_to_linear_loop(dest, cb, n, 0)

\* void circbuf_empty(cb)
circbuf_empty(cb) == [cb EXCEPT !.read_idx = cb.write_idx]

\* circbuf_len that forgets the unused element when the content wraps
circbuf_len_wrap_off(cb) ==
    IF cb.write_idx = cb.read_idx THEN 0
    ELSE IF cb.write_idx > cb.read_idx THEN cb.write_idx - cb.read_idx
    ELSE cb.write_idx - cb.read_idx + cb.size - 1

\* int circbuf_len(cb)
circbuf_len(cb) ==
    IF cb.write_idx = cb.read_idx THEN 0
    ELSE IF cb.write_idx > cb.read_idx THEN cb.write_idx - cb.read_idx
    ELSE cb.write_idx - cb.read_idx + cb.size

\* int circbuf_size(cb)
circbuf_size(cb) == cb.size

\* a space left that counts the element that is never used
circbuf_space_left_whole(cb) == cb.size - circbuf_len(cb)

\* int circbuf_space_left(cb)
circbuf_space_left(cb) == cb.size - 1 - circbuf_len(cb)


(***************************************************************************)
(* The ring buffer on its own: one buffer, driven by every operation of    *)
(* circular_buffer.c with every argument within the bounds.                *)
(***************************************************************************)
CbByte == {"a", "b"}

\* linear source arrays of the bulk push
CbSrc == UNION {[1..n -> CbByte] : n \in 0..MaxBulk}

\* the bytes stored in ring, oldest first
RECURSIVE content_from(_, _)
content_from(b, i) ==
    IF i = b.write_idx THEN <<>>
    ELSE <<b.buf[i]>> \o content_from(b, (i + 1) % b.size)
Content(b) == content_from(b, b.read_idx)

\* the first n elements of the C array a, as a sequence
ArrayPrefix(a, n) == [i \in 1..n |-> a[i - 1]]

\* no bulk push to remember
NoBulk == [src |-> <<>>, n |-> -1, old |-> <<>>, popn |-> -1]

CbPush ==
    \E d \in CbByte :
        LET r == circbuf_push(ring, d)
        IN  /\ ring' = r.cb
            /\ ret' = r.ret
            /\ lastop' = "push"
            /\ fifo' = IF r.ret = 1 THEN Append(fifo, d) ELSE fifo
            /\ bulk' = NoBulk
            /\ UNCHANGED lin

CbPop ==
    LET r == circbuf_pop(ring, lin[0])
    IN  /\ ring' = r.cb
        /\ lin' = [lin EXCEPT ![0] = r.data]
        /\ ret' = r.ret
        /\ lastop' = "pop"
        /\ fifo' = IF r.ret = 1 THEN Tail(fifo) ELSE fifo
        /\ bulk' = NoBulk

CbPushFromLinear ==
    \E src \in CbSrc : \E n \in 0..Len(src) :
        LET r == circbuf_push_from_linear(ring, src, n)
        IN  /\ ring' = r.cb
            /\ ret' = r.ret
            /\ lastop' = "push_from_linear"
            /\ fifo' = fifo \o SubSeq(src, 1, r.ret)
            /\ bulk' = [src |-> src, n |-> n, old |-> Content(ring),
                         popn |-> -1]
            /\ UNCHANGED lin

CbPopToLinear ==
    \E n \in 0..MaxBulk :
        LET r == circbuf_pop_to_linear(lin, ring, n)
        IN  /\ ring' = r.cb
            /\ lin' = r.dest
            /\ ret' = r.ret
            /\ lastop' = "pop_to_linear"
            /\ fifo' = SubSeq(fifo, r.ret + 1, Len(fifo))
            /\ bulk' = [(IF lastop = "push_from_linear" THEN bulk ELSE NoBulk)
                         EXCEPT !.popn = n]

CbEmpty ==
    /\ ring' = circbuf_empty(ring)
    /\ lastop' = "empty"
    /\ fifo' = <<>>
    /\ bulk' = NoBulk
    /\ UNCHANGED <<lin, ret>>

CbInit ==
    /\ \E size \in 2..CbMaxSize : ring = circbuf_alloc(size)
    /\ lin = [i \in 0..(MaxBulk - 1) |-> NUL]
    /\ ret = 0
    /\ lastop = "alloc"
    /\ fifo = <<>>
    /\ bulk = NoBulk


(***************************************************************************)
(* smallchat-server.c: data and helpers                                    *)
(***************************************************************************)
MSG_SEP == "\n"

\* an empty slot of Chat->clients
NULL == [null |-> TRUE]

\* Chat->serversock: the descriptor createTCPServer returned
serversock == 0

\* the string literals of main; a literal is kept as one element
welcome_msg ==
    <<"Welcome to Simple Chat! Use /nick <nick> to set your nick.\n">>
errmsg == <<"Unsupported command\n">>
nick_cmd == <<"/", "n", "i", "c", "k">>

Slots == 0..(MAX_CLIENTS - 1)
Occupied(cl) == {k \in Slots : cl[k] # NULL}

\* strchr(a, ch): index of the first ch in the C string held by array a
\* from index i on, -1 for a null result
RECURSIVE strchr_from(_, _, _)
strchr_from(a, ch, i) ==
    IF a[i] = ch THEN i
    ELSE IF a[i] = NUL THEN -1
    ELSE strchr_from(a, ch, i + 1)
strchr(a, ch) == strchr_from(a, ch, 0)

\* the C string that starts at index i of array a, without its terminator
RECURSIVE cstr(_, _)
cstr(a, i) == IF a[i] = NUL THEN <<>> ELSE <<a[i]>> \o cstr(a, i + 1)

\* "%d" of snprintf
RECURSIVE decimal(_)
decimal(n) ==
    IF n < 0 THEN <<"-">> \o decimal(0 - n)
    ELSE IF n < 10
         THEN <<CASE n = 0 -> "0" [] n = 1 -> "1" [] n = 2 -> "2" [] n = 3 -> "3"
                  [] n = 4 -> "4" [] n = 5 -> "5" [] n = 6 -> "6" [] n = 7 -> "7"
                  [] n = 8 -> "8" [] n = 9 -> "9">>
         ELSE decimal(n \div 10) \o decimal(n % 10)

\* createClient copies nicklen bytes into the nicklen+1 bytes it allocated
\* and never writes the last one: read as a string, the nick ends there or
\* runs on into whatever the allocator left
NickTail == {<<>>, <<"?">>}

\* the fields of the global Chat that change while the server runs
Chat == [clients |-> clients, numclients |-> numclients,
         maxclient |-> maxclient]

\* a createClient that takes every new descriptor for the greatest one
createClient_on_last(ch, fd) ==
    [clients |-> [ch.clients EXCEPT ![fd] = [fd |-> fd, nick |-> <<>>,
                                            nick_open |-> TRUE,
                                            read_cb |-> circbuf_alloc(READBUF_SIZE)]],
     maxclient |-> fd,
     numclients |-> ch.numclients + 1]

\* what createClient(fd) makes of the global state ch, for a descriptor
\* inside the table; nick_open says that the byte after the nick is still
\* indeterminate
createClient_on(ch, fd) ==
    LET c == [fd |-> fd,
              nick |-> <<"u", "s", "e", "r", ":">> \o decimal(fd),
              nick_open |-> TRUE,
              read_cb |-> circbuf_alloc(READBUF_SIZE)]
    IN  [clients |-> [ch.clients EXCEPT ![c.fd] = c],
         maxclient |-> IF c.fd > ch.maxclient THEN c.fd ELSE ch.maxclient,
         numclients |-> ch.numclients + 1]

\* createClient(fd), on Chat
createClient(fd) ==
    LET ch == createClient_on(Chat, fd)
    IN  /\ clients' = ch.clients
        /\ maxclient' = ch.maxclient
        /\ numclients' = ch.numclients

\* a scan that takes the slot below for occupied
free_scan_first(cl, k) == k

\* the downward scan of freeClient over table cl, from slot k
RECURSIVE free_scan(_, _)
free_scan(cl, k) ==
    IF k < 0 THEN -1
    ELSE IF cl[k] # NULL THEN k
    ELSE free_scan(cl, k - 1)

\* what freeClient(c) makes of the global state ch
freeClient_on(ch, c) ==
    LET cl == [ch.clients EXCEPT ![c.fd] = NULL]
    IN  [clients |-> cl,
         numclients |-> ch.numclients - 1,
         maxclient |-> IF ch.maxclient = c.fd
                       THEN free_scan(cl, ch.maxclient - 1)
                       ELSE ch.maxclient]

\* freeClient(c), on Chat
freeClient(c) ==
    LET ch == freeClient_on(Chat, c)
    IN  /\ clients' = ch.clients
        /\ numclients' = ch.numclients
        /\ maxclient' = ch.maxclient

\* the loop of sendMsgToAllClientsBut with j < maxclient as its condition
RECURSIVE send_loop_below_max(_, _, _)
send_loop_below_max(excluded, s, k) ==
    IF k >= maxclient THEN <<>>
    ELSE IF clients[k] = NULL \/ clients[k].fd = excluded
         THEN send_loop_below_max(excluded, s, k + 1)
         ELSE <<[fd |-> clients[k].fd, data |-> s]>>
              \o send_loop_below_max(excluded, s, k + 1)

\* the loop of sendMsgToAllClientsBut from slot k on: its write() calls
RECURSIVE send_loop(_, _, _)
send_loop(excluded, s, k) ==
    IF k > maxclient THEN <<>>
    ELSE IF clients[k] = NULL \/ clients[k].fd = excluded
         THEN send_loop(excluded, s, k + 1)
         ELSE <<[fd |-> clients[k].fd, data |-> s]>>
              \o send_loop(excluded, s, k + 1)

\* sendMsgToAllClientsBut(excluded, s, len): the write() calls it makes
sendMsgToAllClientsBut(excluded, s) == send_loop(excluded, s, 0)

\* the next slot the client loop of main stops at, from slot k on: the
\* first occupied slot in fds that is not above maxc, or -1 when the loop
\* ends
RECURSIVE next_ready(_, _, _, _)
next_ready(cl, maxc, fds, k) ==
    IF k > maxc THEN -1
    ELSE IF cl[k] # NULL /\ k \in fds THEN k
    ELSE next_ready(cl, maxc, fds, k + 1)


(***************************************************************************)
(* smallchat-server.c: main                                                *)
(***************************************************************************)

\* n times the byte ch
Fill(ch, n) == [i \in 1..n |-> ch]

\* The chunks read() may hand over (any of them that fits the requested
\* count): whole and partial chat lines, several lines at once, the /nick
\* command with and without argument, with CR LF, followed by a chat line,
\* another command, and separator-free runs that bring an inbox to the
\* forced-flush threshold, from empty or on top of one buffered byte, and
\* one that would fill every usable byte of an inbox.
Chunks ==
    { <<"a">>,
      <<"a", "\n">>,
      <<"\n">>,
      <<"a", "\n", "a">>,
      <<"a", "\n", "a", "\n">>,
      <<"/", "n", "i", "c", "k", " ", "Z", "\r", "\n">>,
      <<"/", "n", "i", "c", "k", " ", "Z", "\n", "a", "\n">>,
      <<"/", "n", "i", "c", "k", "\n">>,
      <<"/", "a", " ", "Z", "\n">>,
      Fill("a", READBUF_SIZE - 1),
      Fill("a", READBUF_SIZE - 2),
      Fill("a", READBUF_SIZE - 3),
      <<"/">> \o Fill("a", READBUF_SIZE - 3) }

\* what read(fd, tmpbuf, count) can return: -1, 0 (end of stream) or at
\* most count bytes
ReadResults(count) ==
    {[n |-> -1, data |-> <<>>], [n |-> 0, data |-> <<>>]}
    \cup {[n |-> Len(ch), data |-> ch] : ch \in {x \in Chunks : Len(x) <= count}}

\* a count that overlooks the last byte read
count_sep_but_last(data, n) ==
    Cardinality({i \in 1..(n - 1) : data[i] = MSG_SEP})

\* a count that stops at the first MSG_SEP
count_sep_first(data, n) ==
    IF \E i \in 1..n : data[i] = MSG_SEP THEN 1 ELSE 0

\* number of MSG_SEP among the first n bytes of tmpbuf
RECURSIVE count_sep(_, _)
count_sep(data, n) ==
    IF n <= 0 THEN 0
    ELSE (IF data[n] = MSG_SEP THEN 1 ELSE 0) + count_sep(data, n - 1)

\* the values drawn for indeterminate bytes: the stack at start-up and
\* memory outside an array
Garbage == {NUL, MSG_SEP, "?"}

\* the scratch buffer rb as a scan reads it: a byte that was never written
\* has the value drawn for it, h in the last element and g elsewhere
Resolve(rb, g, h) ==
    [i \in 0..(READBUF_SIZE - 1) |->
        IF rb[i] # UNDEF THEN rb[i]
        ELSE IF i = READBUF_SIZE - 1 THEN h ELSE g]

\* what a scan that runs past the end of readbuf reads there, up to and
\* including the first separator
Overruns ==
    UNION {{g \o <<MSG_SEP>> : g \in [1..n -> Garbage \ {MSG_SEP}]} :
              n \in 0..MaxOverrun}

\* the do-while of main that pops one message into the scratch buffer rb,
\* from index idx on.  The result of circbuf_pop is not looked at: when the
\* inbox is drained, rb[idx] keeps the byte it had.  over is TRUE when the
\* scan reaches the end of rb without having met a separator.
RECURSIVE extract_loop(_, _, _)
extract_loop(icb, rb, idx) ==
    IF idx >= READBUF_SIZE
    THEN [cb |-> icb, readbuf |-> rb, idx |-> idx, over |-> TRUE]
    ELSE LET r == circbuf_pop(icb, rb[idx])
             rb2 == [rb EXCEPT ![idx] = r.data]
         IN  IF rb2[idx] # MSG_SEP
             THEN extract_loop(r.cb, rb2, idx + 1)
             ELSE [cb |-> r.cb, readbuf |-> rb2, idx |-> idx + 1, over |-> FALSE]

\* the scratch buffer as the code after the do-while sees it: the bytes
\* the scan went through (rb below idx, then the bytes tail found past the
\* end of the array), the terminator at index idx, and after it what the
\* buffer held before (old)
Terminated(rb, old, tail, idx) ==
    [i \in 0..(IF idx >= READBUF_SIZE THEN idx ELSE READBUF_SIZE - 1) |->
        IF i = idx THEN NUL
        ELSE IF i >= READBUF_SIZE THEN tail[i - READBUF_SIZE + 1]
        ELSE IF i < idx THEN rb[i]
        ELSE old[i]]

\* a strip that leaves the line as it is
cut_at_nothing(a, ch) == a

\* p = strchr(a, ch); if (p) *p = 0;
cut_at(a, ch) ==
    LET p == strchr(a, ch) IN IF p = -1 THEN a ELSE [a EXCEPT ![p] = NUL]

\* the command branch of main on the terminated line a of client c: the
\* line after the in-place edits, the nick, and the write() calls
command(c, a) ==
    LET a1 == cut_at(a, "\r")
        a2 == cut_at(a1, "\n")
        arg == strchr(a2, " ")
        a3 == IF arg # -1 THEN [a2 EXCEPT ![arg] = NUL] ELSE a2
    IN  IF cstr(a3, 0) = nick_cmd /\ arg # -1
        THEN [line |-> a3, nick |-> cstr(a3, arg + 1), nick_open |-> FALSE,
              writes |-> <<>>, kind |-> "nick"]
        ELSE [line |-> a3, nick |-> c.nick, nick_open |-> c.nick_open,
              writes |-> <<[fd |-> c.fd, data |-> errmsg]>>,
              kind |-> "unsupported"]

\* snprintf(msg, sizeof(msg), "%s> %s", nick, line) and the clamp of
\* msglen: the bytes handed to write()
chat_msg(nick, line) ==
    LET full == nick \o <<">", " ">> \o line
    IN  IF Len(full) >= MSG_SIZE THEN SubSeq(full, 1, MSG_SIZE - 1) ELSE full

\* a chat line branch that formats with the nick the client was created with
chat_first_nick(k, c, a, nt) ==
    LET nick == <<"u", "s", "e", "r", ":">> \o decimal(c.fd)
    IN  [line |-> a, nick |-> c.nick, nick_open |-> c.nick_open,
         writes |-> sendMsgToAllClientsBut(k, chat_msg(nick, cstr(a, 0))),
         kind |-> "chat"]

\* the chat line branch of main for client slot k with terminated line a;
\* nt is what the read of an unterminated nick finds after it
chat(k, c, a, nt) ==
    LET nick == IF c.nick_open THEN c.nick \o nt ELSE c.nick
    IN  [line |-> a, nick |-> nick, nick_open |-> FALSE,
         writes |-> sendMsgToAllClientsBut(k, chat_msg(nick, cstr(a, 0))),
         kind |-> "chat"]

\* if (readbuf[0] == '/') ... else ...
process(k, c, a, nt) == IF a[0] = "/" THEN command(c, a) ELSE chat(k, c, a, nt)


\* the test with the length of the inbox in the place of the space left
must_extract_on_len(seps, icb) == seps > 0 \/ circbuf_len(icb) >= 1

\* a count that leaves no room for the terminator
read_count_all(icb) == circbuf_space_left(icb)

\* int count = circbuf_space_left(read_cb) - 1
read_count(icb) == circbuf_space_left(icb) - 1

\* a test that waits for the inbox to have no space left at all
must_extract_when_full(seps, icb) == seps > 0 \/ circbuf_space_left(icb) <= 0

\* if (sep_occur > 0 || circbuf_space_left(read_cb) <= 1): extraction runs
must_extract(seps, icb) == seps > 0 \/ circbuf_space_left(icb) <= 1

\* the for loop over the clients moves on from slot k: it stops at the next
\* ready client of table cl, or ends the iteration
Advance(cl, maxc, k) ==
    LET n == next_ready(cl, maxc, readfds, k)
    IN  /\ pc' = IF n = -1 THEN "select" ELSE "clients"
        /\ j' = IF n = -1 THEN 0 ELSE n

ChatInit ==
    /\ clients = [k \in Slots |-> NULL]
    /\ numclients = 0
    /\ maxclient = -1
    /\ pc = "select"
    /\ readfds = {}
    /\ j = 0
    /\ nread = 0
    /\ sep_occur = 0
    /\ readbuf = [i \in 0..(READBUF_SIZE - 1) |-> UNDEF]
    /\ readbuf_idx = 0
    /\ writes = <<>>
    /\ fault = "none"
    /\ nreads = 0
    /\ naccepts = 0
    /\ g_old = <<>>
    /\ g_chunk = <<>>
    /\ ops = <<>>
    /\ served = <<>>

\* select() fails: perror and exit(1)
SelectError ==
    /\ pc = "select"
    /\ pc' = "exit"
    /\ writes' = <<>>
    /\ nread' = 0 /\ sep_occur' = 0
    /\ g_old' = <<>> /\ g_chunk' = <<>> /\ ops' = <<>> /\ served' = <<>>
    /\ UNCHANGED <<cbvars, chatvars, readfds, j, readbuf, readbuf_idx, fault,
                   nreads, naccepts>>

\* select() returns 0: the timeout branch does nothing
SelectTimeout ==
    /\ pc = "select"
    /\ writes' = <<>>
    /\ nread' = 0 /\ sep_occur' = 0
    /\ g_old' = <<>> /\ g_chunk' = <<>> /\ ops' = <<>> /\ served' = <<>>
    /\ UNCHANGED <<cbvars, chatvars, pc, readfds, j, readbuf, readbuf_idx,
                   fault, nreads, naccepts>>

\* select() returns the ready descriptors among the listening socket and
\* the registered clients
SelectReady ==
    /\ pc = "select"
    /\ \E ready \in SUBSET ({serversock} \cup Occupied(clients)) :
        /\ ready # {}
        /\ serversock \in ready => naccepts < MaxAccepts
        /\ Cardinality(ready \ {serversock}) <= MaxReads - nreads
        /\ readfds' = ready
    /\ pc' = "accept"
    /\ writes' = <<>>
    /\ nread' = 0 /\ sep_occur' = 0
    /\ g_old' = <<>> /\ g_chunk' = <<>> /\ ops' = <<>> /\ served' = <<>>
    /\ UNCHANGED <<cbvars, chatvars, j, readbuf, readbuf_idx, fault, nreads,
                   naccepts>>

\* what acceptClient can return: -1, or a descriptor that is not open,
\* inside the table or not
AcceptResults ==
    {-1} \cup ((0..MAX_CLIENTS) \ ({serversock} \cup Occupied(clients)))

\* the listening socket is readable: acceptClient, createClient, welcome
Accept ==
    /\ pc = "accept"
    /\ serversock \in readfds
    /\ \E fd \in AcceptResults :
        IF fd \in Slots
        THEN /\ createClient(fd)
             /\ writes' = <<[fd |-> fd, data |-> welcome_msg]>>
             /\ Advance(clients', maxclient', 0)
             /\ UNCHANGED fault
        ELSE \* Chat->clients[fd] lies outside the table
             /\ fault' = "clients_index"
             /\ pc' = "crashed"
             /\ writes' = <<>>
             /\ UNCHANGED <<chatvars, j>>
    /\ naccepts' = naccepts + 1
    /\ UNCHANGED <<cbvars, readfds, nread, sep_occur, readbuf, readbuf_idx,
                   nreads, histvars>>

\* the listening socket is not readable
NoAccept ==
    /\ pc = "accept"
    /\ serversock \notin readfds
    /\ Advance(clients, maxclient, 0)
    /\ writes' = <<>>
    /\ UNCHANGED <<cbvars, chatvars, readfds, nread, sep_occur, readbuf,
                   readbuf_idx, fault, nreads, naccepts, histvars>>

\* client j is ready: read into tmpbuf, push into its inbox, terminate
\* tmpbuf, then free the client or count the separators and decide whether
\* to extract
ReadClient ==
    /\ pc = "clients"
    /\ LET c == clients[j]
           count == read_count(c.read_cb)
       IN  \E res \in ReadResults(count) :
            LET r == circbuf_push_from_linear(c.read_cb, res.data, res.n)
                seps == count_sep(res.data, res.n)
                cl == [clients EXCEPT ![j].read_cb = r.cb]
                stray == res.n < 0 \/ res.n >= READBUF_SIZE
            IN  /\ nread' = res.n
                /\ nreads' = nreads + 1
                /\ g_old' = Content(c.read_cb)
                /\ g_chunk' = res.data
                /\ ops' = <<>>
                /\ served' = Append(served, j)
                /\ writes' = <<>>
                /\ fault' = IF stray THEN "tmpbuf_index" ELSE fault
                /\ \E crash \in (IF stray THEN {TRUE, FALSE} ELSE {FALSE}) :
                    IF crash
                    THEN /\ pc' = "crashed"
                         /\ UNCHANGED <<chatvars, j, sep_occur>>
                    ELSE IF res.n <= 0
                    THEN /\ freeClient(c)
                         /\ Advance(clients', maxclient', j + 1)
                         /\ UNCHANGED sep_occur
                    ELSE /\ clients' = cl
                         /\ UNCHANGED <<numclients, maxclient>>
                         /\ IF must_extract(seps, r.cb)
                            THEN /\ sep_occur' = IF seps = 0 THEN 1 ELSE seps
                                 /\ pc' = "extract"
                                 /\ UNCHANGED j
                            ELSE /\ sep_occur' = seps
                                 /\ Advance(cl, maxclient, j + 1)
    /\ UNCHANGED <<cbvars, readfds, readbuf, readbuf_idx, naccepts>>

\* one round of the extraction loop for client j: pop one message into
\* readbuf, terminate it, and process it as a command or as a chat line.
\* The indeterminate bytes are drawn only where the code reads them: the
\* bytes of readbuf when the inbox holds no separator (the scan then goes on
\* past the popped bytes), the byte after the nick when a chat line of a
\* client with its first nick is formatted.
Extract ==
    /\ pc = "extract"
    /\ LET c == clients[j]
           drained == \A i \in 1..circbuf_len(c.read_cb) :
                          Content(c.read_cb)[i] # MSG_SEP
           G == IF drained THEN Garbage ELSE {NUL}
       IN  \E g \in G, h \in G :
           \E x \in {extract_loop(c.read_cb, Resolve(readbuf, g, h), 0)} :
           \E tail \in (IF x.over THEN Overruns ELSE {<<>>}) :
           \E idx \in {x.idx + Len(tail)} :
           \E a \in {Terminated(x.readbuf, readbuf, tail, idx)} :
           \E nt \in (IF c.nick_open /\ a[0] # "/" THEN NickTail ELSE {<<>>}) :
           \E p \in {process(j, [c EXCEPT !.read_cb = x.cb], a, nt)} :
            LET stray == idx >= READBUF_SIZE
                c1 == [c EXCEPT !.read_cb = x.cb]
                cl == [clients EXCEPT ![j] = [c1 EXCEPT !.nick = p.nick,
                                                        !.nick_open = p.nick_open]]
            IN  /\ readbuf_idx' = idx
                /\ fault' = IF stray THEN "readbuf_index" ELSE fault
                /\ \E crash \in (IF stray THEN {TRUE, FALSE} ELSE {FALSE}) :
                    IF crash
                    THEN /\ pc' = "crashed"
                         /\ clients' = [clients EXCEPT ![j] = c1]
                         /\ readbuf' = [i \in 0..(READBUF_SIZE - 1) |->
                                            IF i < idx THEN x.readbuf[i]
                                            ELSE readbuf[i]]
                         /\ writes' = <<>>
                         /\ UNCHANGED <<j, sep_occur, ops>>
                    ELSE /\ clients' = cl
                         /\ readbuf' = [i \in 0..(READBUF_SIZE - 1) |-> p.line[i]]
                         /\ writes' = p.writes
                         /\ ops' = Append(ops,
                                [msg |-> [i \in 1..idx |-> a[i - 1]],
                                 line |-> cstr(a, 0),
                                 kind |-> p.kind,
                                 out |-> p.writes])
                         /\ sep_occur' = sep_occur - 1
                         /\ IF sep_occur - 1 > 0
                            THEN UNCHANGED <<pc, j>>
                            ELSE Advance(cl, maxclient, j + 1)
    /\ UNCHANGED <<cbvars, numclients, maxclient, readfds, nread, nreads,
                   naccepts, g_old, g_chunk, served>>

Init == CbInit /\ ring.size = CbMaxSize /\ ChatInit

Next ==
    \/ SelectError
    \/ SelectTimeout
    \/ SelectReady
    \/ Accept
    \/ NoAccept
    \/ ReadClient
    \/ Extract

Spec == Init /\ [][Next]_vars

\* the ring buffer specification: the server does not run
InitCb == CbInit /\ ChatInit

NextCb ==
    \/ (CbPush /\ UNCHANGED <<chatvars, mainvars, histvars>>)
    \/ (CbPop /\ UNCHANGED <<chatvars, mainvars, histvars>>)
    \/ (CbPushFromLinear /\ UNCHANGED <<chatvars, mainvars, histvars>>)
    \/ (CbPopToLinear /\ UNCHANGED <<chatvars, mainvars, histvars>>)
    \/ (CbEmpty /\ UNCHANGED <<chatvars, mainvars, histvars>>)

SpecCb == InitCb /\ [][NextCb]_vars


(***************************************************************************)
(* Properties of the ring buffer (checked under SpecCb)                    *)
(***************************************************************************)
IsFull(b) == (b.write_idx + 1) % b.size = b.read_idx
IsEmpty(b) == b.read_idx = b.write_idx

\* C8: circbuf_push on a full buffer returns 0 and leaves write_idx,
\* read_idx and the stored bytes as they were; circbuf_pop on an empty
\* buffer returns 0 and leaves write_idx, read_idx, the stored bytes and the
\* output location as they were.
C8_FailedCallsChangeNothing ==
    [][ /\ (lastop' = "push" /\ IsFull(ring)) => (ret' = 0 /\ ring' = ring)
        /\ (lastop' = "pop" /\ IsEmpty(ring))
              => (ret' = 0 /\ ring' = ring /\ lin' = lin) ]_vars

\* a push has just been refused by a full buffer whose content wraps
C8_Witness ==
    /\ lastop = "push" /\ ret = 0 /\ IsFull(ring)
    /\ ring.write_idx < ring.read_idx

\* C9: after any sequence of operations on a buffer of size N >= 2,
\* write_idx and read_idx are in [0, N), circbuf_len is in [0, N-1], and
\* circbuf_len is 0 exactly when write_idx = read_idx.
C9_IndexInvariant ==
    /\ ring.size >= 2
    /\ ring.write_idx \in 0..(ring.size - 1)
    /\ ring.read_idx \in 0..(ring.size - 1)
    /\ circbuf_len(ring) \in 0..(ring.size - 1)
    /\ (circbuf_len(ring) = 0) <=> (ring.write_idx = ring.read_idx)

\* a full buffer whose indices have both wrapped around
C9_Witness ==
    /\ lastop # "alloc"
    /\ circbuf_len(ring) = ring.size - 1
    /\ ring.write_idx < ring.read_idx
    /\ ring.size = CbMaxSize

\* C10: the ring buffer is a FIFO queue bounded by N-1: circbuf_len is the
\* number of bytes pushed and not yet popped or cleared, never more than
\* N-1, circbuf_space_left is N-1 minus that number, the stored bytes are
\* those bytes in the order of their pushes, and successful pops hand out
\* the oldest bytes first.
C10_FifoRefinement ==
    /\ [](/\ circbuf_len(ring) = Len(fifo)
          /\ Len(fifo) <= ring.size - 1
          /\ circbuf_space_left(ring) = ring.size - 1 - Len(fifo)
          /\ Content(ring) = fifo)
    /\ [][ /\ (lastop' = "pop" /\ ret' = 1) => lin'[0] = Head(fifo)
           /\ (lastop' = "pop_to_linear")
                 => ArrayPrefix(lin', ret') = SubSeq(fifo, 1, ret') ]_vars

\* a bulk pop has just handed out two bytes of a content that wrapped
C10_Witness ==
    /\ lastop = "pop_to_linear" /\ ret = 2
    /\ lin[0] # lin[1]
    /\ ring.read_idx < 2
    /\ Len(fifo) >= 1

\* C11: circbuf_push_from_linear(cb, src, n) returns the smaller of n and
\* the space left before the call and has appended that many bytes of src,
\* in order; when the buffer was empty before it, a circbuf_pop_to_linear
\* of that count right after it returns the count, hands out those bytes in
\* order and leaves the buffer empty.
C11_BulkRoundTrip ==
    /\ [](lastop = "push_from_linear"
            => LET space == ring.size - 1 - Len(bulk.old)
               IN  /\ ret = IF bulk.n < space THEN bulk.n ELSE space
                   /\ Content(ring) = bulk.old \o SubSeq(bulk.src, 1, ret))
    /\ [][ (/\ lastop = "push_from_linear" /\ bulk.old = <<>>
            /\ lastop' = "pop_to_linear" /\ bulk'.popn = ret)
           => /\ ret' = ret
              /\ ArrayPrefix(lin', ret) = SubSeq(bulk.src, 1, ret)
              /\ IsEmpty(ring') ]_vars

\* two different bytes went into an empty buffer across its wrap-around
\* and the bulk pop after it handed them out
C11_Witness ==
    /\ lastop = "pop_to_linear" /\ bulk.popn = 2 /\ ret = 2
    /\ bulk.n = 2 /\ bulk.old = <<>>
    /\ bulk.src[1] # bulk.src[2]
    /\ lin[0] = bulk.src[1] /\ lin[1] = bulk.src[2]
    /\ ring.write_idx = 1 /\ IsEmpty(ring)


(***************************************************************************)
(* Properties of the server (checked under Spec)                           *)
(***************************************************************************)
Last(sq) == sq[Len(sq)]

\* number of separators in a sequence of bytes
NumSep(sq) == Cardinality({i \in 1..Len(sq) : sq[i] = MSG_SEP})

\* index of the last separator of a sequence of bytes, 0 when it has none
LastSep(sq) ==
    IF NumSep(sq) = 0 THEN 0
    ELSE CHOOSE i \in 1..Len(sq) :
            sq[i] = MSG_SEP /\ \A k \in (i + 1)..Len(sq) : sq[k] # MSG_SEP

RECURSIVE Concat(_)
Concat(ss) == IF ss = <<>> THEN <<>> ELSE Head(ss) \o Concat(Tail(ss))

\* the client of the last read, what its inbox held followed by what the
\* read brought, and the messages extracted since
Sender == Last(served)
Received == g_old \o g_chunk
Msgs == [i \in 1..Len(ops) |-> ops[i].msg]

\* the last read brought bytes and the server is done with them
ReadDone == nread > 0 /\ pc \in {"clients", "select"}

\* the descriptors written to, in the order of the write() calls
Fds(ws) == [i \in 1..Len(ws) |-> ws[i].fd]

\* ws writes text once to each descriptor of set S, in ascending order
WritesAscending(ws, S, text) ==
    /\ Len(ws) = Cardinality(S)
    /\ {ws[i].fd : i \in 1..Len(ws)} = S
    /\ \A i \in 1..Len(ws) : \A k \in 1..Len(ws) : i < k => ws[i].fd < ws[k].fd
    /\ \A i \in 1..Len(ws) : ws[i].data = text

\* C1: in every reachable registry state sendMsgToAllClientsBut(S, text)
\* writes text exactly once to each occupied slot other than S, in ascending
\* order, never to S, and to every occupied slot when S is no occupied id;
\* and the write() calls of every chat line dispatched for a client are
\* those, with the client as S.
C1_Broadcast ==
    /\ \A excl \in (-1)..MAX_CLIENTS :
          WritesAscending(sendMsgToAllClientsBut(excl, <<"t">>),
                          Occupied(clients) \ {excl}, <<"t">>)
    /\ (pc # "crashed" /\ ops # <<>> /\ Last(ops).kind = "chat")
          => /\ writes # <<>> => \A i \in 1..Len(writes) :
                                    writes[i].data = writes[1].data
             /\ WritesAscending(writes, Occupied(clients) \ {Sender},
                                IF writes = <<>> THEN <<>> ELSE writes[1].data)

\* the middle one of three clients has sent a chat line: it went to the
\* lower and then to the higher one
C1_Witness ==
    /\ pc # "crashed" /\ ops # <<>> /\ Last(ops).kind = "chat"
    /\ Sender = 2
    /\ Fds(writes) = <<1, 3>>

\* C2: when a read brings a chunk with k >= 1 separators, exactly k
\* messages are extracted, each ending with its only separator, together
\* they are what the inbox held followed by the chunk up to the last
\* separator, and the bytes after it stay in the inbox, in order.
C2_Framing ==
    (ReadDone /\ NumSep(g_chunk) >= 1)
       => /\ Len(ops) = NumSep(g_chunk)
          /\ \A i \in 1..Len(ops) :
                Last(ops[i].msg) = MSG_SEP /\ NumSep(ops[i].msg) = 1
          /\ Concat(Msgs) = SubSeq(Received, 1, LastSep(Received))
          /\ Content(clients[Sender].read_cb)
                = SubSeq(Received, LastSep(Received) + 1, Len(Received))

\* a byte was buffered, the next read brought the rest of that line and the
\* start of another: one message, and the start stays in the inbox
C2_Witness ==
    /\ ReadDone
    /\ g_old = <<"a">> /\ g_chunk = <<"a", "\n", "a">>
    /\ Msgs = << <<"a", "a", "\n">> >>
    /\ Content(clients[Sender].read_cb) = <<"a">>

\* C5: a read whose chunk has no separator and leaves the inbox with more
\* than one free byte extracts no message and writes to nobody, and the
\* inbox then holds what it held followed by the chunk.
C5_KeepBuffering ==
    [][ (/\ pc = "clients" /\ nreads' = nreads + 1 /\ nread' > 0
         /\ NumSep(g_chunk') = 0
         /\ circbuf_space_left(clients'[j].read_cb) > 1)
        => /\ pc' \in {"clients", "select"}
           /\ ops' = <<>> /\ writes' = <<>>
           /\ Content(clients'[j].read_cb)
                 = Content(clients[j].read_cb) \o g_chunk' ]_vars

\* two reads that brought one byte each: nothing extracted, both buffered
C5_Witness ==
    /\ ReadDone
    /\ g_old = <<"a">> /\ g_chunk = <<"a">>
    /\ ops = <<>> /\ writes = <<>>
    /\ Content(clients[Sender].read_cb) = <<"a", "a">>


\* C3 (as claimed): when a read without separator brings the inbox to the
\* forced-flush threshold, extraction runs once, pops until the inbox is
\* drained and stops there, and yields one message that is exactly the
\* bytes the inbox held; the inbox is empty afterwards.
C3_ForcedFlushExact ==
    (/\ nread > 0 /\ NumSep(g_chunk) = 0
     /\ READBUF_SIZE - 1 - Len(Received) <= 1
     /\ pc # "extract")
       => /\ pc # "crashed"
          /\ Len(ops) = 1
          /\ ops[1].msg = Received
          /\ readbuf_idx = Len(Received)
          /\ Content(clients[Sender].read_cb) = <<>>

Stripped(l) ==
    LET ends == {i \in 1..Len(l) : l[i] \in {"\r", "\n"}}
    IN  IF ends = {} THEN l
        ELSE SubSeq(l, 1, (CHOOSE i \in ends : \A k \in ends : i <= k) - 1)
SpaceAt(l) ==
    LET sp == {i \in 1..Len(Stripped(l)) : Stripped(l)[i] = " "}
    IN  IF sp = {} THEN 0 ELSE CHOOSE i \in sp : \A k \in sp : i <= k
CmdName(l) ==
    IF SpaceAt(l) = 0 THEN Stripped(l) ELSE SubSeq(Stripped(l), 1, SpaceAt(l) - 1)
CmdArg(l) == SubSeq(Stripped(l), SpaceAt(l) + 1, Len(Stripped(l)))

\* C6: the messages of one client are processed in the order their bytes
\* came, each one before the next is extracted: at every point of an
\* extraction the messages processed so far, followed by what is still in
\* the inbox, are the bytes received, and their number is the number of
\* rounds done; a chat line that follows a /nick X of the same read goes out
\* as "X> line"; and the clients read in one iteration are read in
\* ascending order of their ids.
C6_Order ==
    /\ (nread > 0 /\ pc # "crashed" /\ NumSep(g_chunk) >= 1)
          => /\ Concat(Msgs) \o Content(clients[Sender].read_cb) = Received
             /\ Len(ops) = NumSep(g_chunk)
                              - (IF pc = "extract" THEN sep_occur ELSE 0)
             /\ pc = "extract" => j = Sender
    /\ \A i \in 1..(Len(ops) - 1) :
          (ops[i].kind = "nick" /\ ops[i + 1].kind = "chat")
             => \A n \in 1..Len(ops[i + 1].out) :
                   ops[i + 1].out[n].data
                      = CmdArg(ops[i].line) \o <<">", " ">> \o ops[i + 1].line
    /\ \A i \in 1..Len(served) : \A k \in 1..Len(served) :
          i < k => served[i] < served[k]

\* two clients were read in one iteration; the second sent "/nick Z" and a
\* line in one chunk, and the line went to the first as "Z> a"
C6_Witness ==
    /\ Len(served) = 2
    /\ Len(ops) = 2 /\ ops[1].kind = "nick" /\ ops[2].kind = "chat"
    /\ writes = <<[fd |-> served[1], data |-> <<"Z", ">", " ", "a", "\n">>]>>
    /\ clients[Sender].nick = <<"Z">>

\* C7: for an extracted message that starts with '/': when its name, after
\* the strip of CR/LF, is "/nick" and a space follows it, the nick of the
\* issuing client becomes what follows that space and nothing is written;
\* otherwise "Unsupported command\n" is written to the issuing client alone
\* and its nick stays; no other client and no registry field changes, and
\* the message is never broadcast.
C7_Commands ==
    [][ (/\ pc = "extract" /\ pc' # "crashed" /\ Len(ops') = Len(ops) + 1
         /\ Last(ops').line # <<>> /\ Last(ops').line[1] = "/")
        => LET l == Last(ops').line
           IN  /\ IF CmdName(l) = <<"/", "n", "i", "c", "k">> /\ SpaceAt(l) # 0
                  THEN /\ clients'[j].nick = CmdArg(l)
                       /\ writes' = <<>>
                  ELSE /\ clients'[j].nick = clients[j].nick
                       /\ writes' = <<[fd |-> j,
                                       data |-> <<"Unsupported command\n">>]>>
               /\ \A k \in Slots \ {j} : clients'[k] = clients[k]
               /\ clients'[j].fd = j
               /\ numclients' = numclients /\ maxclient' = maxclient
               /\ Last(ops').kind # "chat" ]_vars

\* "/nick Z" came with CR LF: the nick is "Z" and nothing was written
C7_Witness ==
    /\ ReadDone
    /\ g_chunk = <<"/", "n", "i", "c", "k", " ", "Z", "\r", "\n">>
    /\ Len(ops) = 1 /\ ops[1].kind = "nick"
    /\ clients[Sender].nick = <<"Z">>
    /\ writes = <<>>
    /\ numclients >= 2


\* the greatest element of a set of slots, -1 for the empty set
Greatest(S) == IF S = {} THEN -1 ELSE CHOOSE k \in S : \A m \in S : m <= k

C13_CreateThenFree ==
    \A id \in Slots \ Occupied(clients) :
        LET made == createClient_on(Chat, id)
            back == freeClient_on(made, made.clients[id])
        IN  /\ id \in Occupied(made.clients)
            /\ made.numclients = numclients + 1
            /\ back.numclients = numclients
            /\ back.maxclient = maxclient
            /\ Occupied(back.clients) = Occupied(clients)

\* a client was accepted into a slot below the greatest one and was freed
\* at its first read: the registry is what it was before that accept
C13_Witness ==
    /\ naccepts = 2 /\ nreads = 1
    /\ served = <<1>> /\ nread = 0
    /\ Occupied(clients) = {3}
    /\ maxclient = 3 /\ numclients = 1


\* the least element of a set of slots
Least(S) == CHOOSE k \in S : \A m \in S : k <= m

\* C14 (as claimed): when the read on ready client j returns 0 or a negative
\* value, client j is unregistered and that is all: its slot is cleared,
\* numclients goes down by one, maxclient is the greatest slot still
\* occupied, what its inbox held is not extracted, nothing is written, no
\* other client changes, and the loop goes on with the next ready client,
\* or ends the iteration when there is none.
C14_DisconnectOnly ==
    [][ (pc = "clients" /\ nreads' = nreads + 1 /\ nread' <= 0)
        => LET rest == {k \in Occupied(clients') : k > j /\ k \in readfds}
           IN  /\ clients'[j] = NULL
               /\ \A k \in Slots \ {j} : clients'[k] = clients[k]
               /\ numclients' = numclients - 1
               /\ maxclient' = Greatest(Occupied(clients'))
               /\ ops' = <<>> /\ writes' = <<>>
               /\ IF rest = {} THEN pc' = "select"
                  ELSE pc' = "clients" /\ j' = Least(rest) ]_vars


\* C15 (as claimed): a client registered in slot i has the nick "user:<i>"
\* and an empty inbox; its nick changes only by a /nick command of its own,
\* and its inbox only by a read or an extraction of its own: no other step
\* of the server, whichever client it serves, changes them.
C15_NickAndInboxFrame ==
    [][ \A k \in Slots :
          /\ (clients[k] = NULL /\ clients'[k] # NULL)
                => /\ clients'[k].nick = <<"u", "s", "e", "r", ":">> \o decimal(k)
                   /\ Content(clients'[k].read_cb) = <<>>
          /\ (clients[k] # NULL /\ clients'[k] # NULL)
                => /\ clients'[k].nick # clients[k].nick
                      => /\ pc = "extract" /\ k = j
                         /\ Len(ops') = Len(ops) + 1
                         /\ Last(ops').kind = "nick"
                   /\ Content(clients'[k].read_cb) # Content(clients[k].read_cb)
                      => /\ pc \in {"clients", "extract"} /\ k = j ]_vars


\* C16 (as claimed): whatever acceptClient returns, the client table is
\* accessed inside [0, MAX_CLIENTS) only: the accept step registers a client
\* in a slot of the table that was unoccupied, the assertion of createClient
\* holds, and there are never more than MAX_CLIENTS clients.
C16_TableAccessInBounds ==
    /\ [](numclients <= MAX_CLIENTS /\ fault # "clients_index")
    /\ [][ (pc = "accept" /\ naccepts' = naccepts + 1)
           => /\ pc' # "crashed"
              /\ \E fd \in Slots :
                    /\ clients[fd] = NULL /\ clients'[fd] # NULL
                    /\ clients'[fd].fd = fd
                    /\ \A k \in Slots \ {fd} : clients'[k] = clients[k] ]_vars


\* C17 (as claimed): every iteration that starts completes.  A step of the
\* loop body (the accept step, the read of a ready client, a round of the
\* extraction loop, that of a forced flush included) ends inside the loop,
\* and the loops are bounded: a round of the extraction loop that is not
\* the last leaves fewer rounds to do, and the client loop moves to a higher
\* slot or ends, so that the iteration comes back to select().
C17_IterationCompletes ==
    [][ (pc \in {"accept", "clients", "extract"})
        => /\ pc' \in {"clients", "extract", "select"}
           /\ (pc = "extract" /\ pc' = "extract")
                 => (j' = j /\ sep_occur' < sep_occur /\ sep_occur' > 0)
           /\ (pc # "accept" /\ pc' = "clients") => j' > j
           /\ (pc = "clients" /\ pc' = "extract")
                 => (j' = j /\ sep_occur' > 0) ]_vars


\* C18 (as claimed): the index at which the extraction loop stores a popped
\* byte into readbuf, and the index at which the terminator is written
\* after it, are inside [0, READBUF_SIZE), for messages that end with a
\* separator and for forced-flush messages.
C18_ReadbufIndexInBounds ==
    /\ readbuf_idx \in 0..(READBUF_SIZE - 1)
    /\ fault # "readbuf_index"

\* C19 (as claimed): whatever read() returns for a ready client, a positive
\* count, 0 or a negative value, the index nread at which the terminator is
\* written into tmpbuf is inside [0, READBUF_SIZE).
C19_TmpbufIndexInBounds ==
    /\ nread \in 0..(READBUF_SIZE - 1)
    /\ fault # "tmpbuf_index"

\* C20: whenever a read is issued for a registered client, its inbox has
\* room for at least two bytes, so that at least one byte is asked for; the
\* inbox of every client that is not in the middle of its extraction has
\* that room.
C20_ReadAsksForBytes ==
    /\ pc = "clients"
          => /\ clients[j] # NULL
             /\ circbuf_space_left(clients[j].read_cb) >= 2
             /\ read_count(clients[j].read_cb) >= 1
    /\ \A k \in Occupied(clients) :
          (pc = "extract" /\ k = j)
             \/ circbuf_space_left(clients[k].read_cb) >= 2

\* a read was issued for an inbox with room for exactly two bytes: one byte
\* was asked for and one byte came
C20_Witness ==
    /\ Len(g_old) = READBUF_SIZE - 3
    /\ nread = 1 /\ g_chunk # <<MSG_SEP>>
    /\ pc = "extract" /\ sep_occur = 1
    /\ circbuf_space_left(clients[j].read_cb) = 1


\* C21: every byte a successful read returns is stored in the inbox of the
\* client: circbuf_push_from_linear returns nread, the inbox afterwards
\* holds what it held followed by the bytes read, and no inbox ever holds
\* more than READBUF_SIZE-2 bytes.
C21_ReadBytesAllStored ==
    /\ [](\A k \in Occupied(clients) :
             circbuf_len(clients[k].read_cb) <= READBUF_SIZE - 2)
    /\ [][ (pc = "clients" /\ nreads' = nreads + 1 /\ nread' > 0)
           => /\ circbuf_push_from_linear(clients[j].read_cb, g_chunk',
                                          nread').ret = nread'
              /\ Len(g_chunk') = nread'
              /\ clients'[j] # NULL
              /\ Content(clients'[j].read_cb)
                    = Content(clients[j].read_cb) \o g_chunk' ]_vars

\* a read has brought an inbox that held one byte to READBUF_SIZE-2 bytes,
\* the most it can hold
C21_Witness ==
    /\ pc = "extract" /\ ops = <<>>
    /\ Len(g_old) = 1 /\ nread = READBUF_SIZE - 3
    /\ Content(clients[j].read_cb) = g_old \o g_chunk
    /\ circbuf_len(clients[j].read_cb) = READBUF_SIZE - 2

\* C22: at every readiness wait, and at every point of an iteration but in
\* the extraction of a client, no inbox holds a separator; when the
\* extraction of a client starts its inbox holds as many separators as the
\* chunk just read, and every round takes one of them.
C22_NoSeparatorLeft ==
    /\ \A k \in Occupied(clients) :
          (pc = "extract" /\ k = j)
             \/ NumSep(Content(clients[k].read_cb)) = 0
    /\ pc = "extract"
          => /\ ops = <<>>
                   => NumSep(Content(clients[j].read_cb)) = NumSep(g_chunk)
             /\ NumSep(g_chunk) >= 1
                   => NumSep(Content(clients[j].read_cb)) = sep_occur
             /\ NumSep(g_old) = 0

\* back at select() after a read that brought two separators on top of a
\* buffered byte: two messages were extracted and the inbox is empty
C22_Witness ==
    /\ pc = "select"
    /\ g_old # <<>> /\ NumSep(g_chunk) = 2
    /\ Len(ops) = 2
    /\ clients[Sender] # NULL
    /\ Content(clients[Sender].read_cb) = <<>>

=============================================================================
